---- MODULE Spec2Model ----
(***************************************************************************)
(* A model of machin's ReplayBuffer (models/frames/buffers/               *)
(* replay_buffer.py): a list-backed ring buffer of Transition objects     *)
(* with an overwrite cursor, its append / clear / sample_batch            *)
(* operations, and the interleavings of append when several producers     *)
(* share one buffer.                                                       *)
(*                                                                         *)
(*   Spec            calls made one at a time                              *)
(*   SpecMixed       the same, producers attaching different attributes    *)
(*   SpecConcurrent  two producers inside append at once                   *)
(***************************************************************************)
EXTENDS Integers, Sequences, FiniteSets, TLC

\* ------------------------------------------------------------------ bounds
MaxCapacity == 3      \* buffer_size ranges over 1..MaxCapacity
MaxAppends == 5       \* successful appends per run
MaxBatch == 2         \* batch_size ranges over 0..MaxBatch
MaxRounds == 2        \* rounds of concurrent appends
MaxUnit == 2          \* leading dimensions of the tensors range over 1..MaxUnit
MaxBodyCalls == 2     \* act / eval_act / criticize calls of one update body

\* ------------------------------------------------------------- Transition
\* Transition.__init__: the five fixed attributes, in the order of _keys.
CoreKeys == {"state", "action", "next_state", "reward", "terminal"}

\* The **kwargs a producer may attach: none, or one custom attribute.
ExtChoices == {{}, {"value"}}

\* The same, for producers that do not agree on the custom attribute.
MixedExtChoices == ExtChoices \cup {{"log_prob"}}

\* required_keys arguments of append: the default and one asking for a
\* custom attribute.
RequiredChoices == {CoreKeys, CoreKeys \cup {"value"}}

\* Transition.__init__: _keys is the fixed list plus the kwargs' names and
\* _length counts 5 plus one per kwarg.  id names the object (its identity);
\* unit is the leading dimension of its tensors, 1 for a single step, and
\* reward tells a float reward from a tensor one.
Transition(id, ext) ==
    [id |-> id, keys |-> CoreKeys \cup ext, length |-> 5 + Cardinality(ext),
     unit |-> 1, reward |-> "float"]

\* Transition.has_keys
has_keys(t, keys) == \A k \in keys : k \in t.keys

\* The keyword arguments of Transition.__init__ (a dict given to append is
\* passed as **transition): the custom names, whether every value under
\* state / action / next_state is a tensor, the shapes of those tensors, and
\* the reward: a Python float, a Python int, or a tensor of some shape.
Mapping(ext, tensors, shapes, reward, reward_shape) ==
    [ext |-> ext, tensors |-> tensors, shapes |-> shapes, reward |-> reward,
     reward_shape |-> reward_shape]

NoMapping == Mapping({}, FALSE, << >>, "", << >>)

\* shapes of the state, action and next_state tensors of a transition whose
\* state tensors have leading dimension n and whose action tensor has k
Shapes(n, k) == << <<n, 4>>, <<k, 1>>, <<n, 4>> >>

\* The dicts given to append one call at a time: a single step with a float
\* reward (with or without a custom attribute), the same with reward 0 (an
\* int, as test_update passes it), and one whose state tensors are batched
\* while its reward is a float.
StepMappings ==
    { Mapping(ext, TRUE, Shapes(1, 1), "float", << >>) : ext \in ExtChoices }
    \cup { Mapping({}, TRUE, Shapes(1, 1), "int", << >>),
           Mapping({}, TRUE, Shapes(2, 1), "float", << >>) }

\* Transition._check_input, lines 60-75
check_input(m) ==
    IF ~m.tensors
    THEN \* lines 61-64
         [ok |-> FALSE, err |-> "RuntimeError", batch_size |-> 0]
    ELSE IF m.reward = "float"
    THEN \* lines 68-69, then 74-75
         IF \E i \in 1..Len(m.shapes) : Len(m.shapes[i]) = 0
         THEN [ok |-> FALSE, err |-> "IndexError", batch_size |-> 0]
         ELSE IF \A i \in 1..Len(m.shapes) : m.shapes[i][1] = 1
         THEN [ok |-> TRUE, err |-> "", batch_size |-> 1]
         ELSE [ok |-> FALSE, err |-> "RuntimeError", batch_size |-> 0]
    ELSE IF m.reward # "tensor"
    THEN \* line 70: trans.reward.shape of a value that has no shape
         [ok |-> FALSE, err |-> "AttributeError", batch_size |-> 0]
    ELSE IF Len(m.reward_shape) # 2
    THEN \* lines 72-73
         [ok |-> FALSE, err |-> "RuntimeError", batch_size |-> 0]
    ELSE \* lines 70-71, then 74-75
         IF \E i \in 1..Len(m.shapes) : Len(m.shapes[i]) = 0
         THEN [ok |-> FALSE, err |-> "IndexError", batch_size |-> 0]
         ELSE IF \A i \in 1..Len(m.shapes) : m.shapes[i][1] = m.reward_shape[1]
         THEN [ok |-> TRUE, err |-> "", batch_size |-> m.reward_shape[1]]
         ELSE [ok |-> FALSE, err |-> "RuntimeError", batch_size |-> 0]

\* Transition.__init__ on a mapping, lines 23-34: the object built when
\* _check_input passes
construct(id, m) ==
    [Transition(id, m.ext) EXCEPT !.unit = check_input(m).batch_size,
                                  !.reward = m.reward]

\* ----------------------------------------------------------- ReplayBuffer
VARIABLES
    buffer_size,   \* self.buffer_size
    buffer,        \* self.buffer, a Python list (1-based here)
    index,         \* self.index, the overwrite cursor (0-based as in Python)
    last,          \* outcome of the last call, as seen by the caller
    hist,          \* every transition stored so far, in order of storing
    fresh,         \* no clear() since construction
    pc,            \* per producer: position inside append
    loc,           \* per producer: locals of append
    base,          \* buffer and index when the current round began
    round,         \* number of rounds of concurrent appends begun
    disable_sync,  \* per worker: self._disable_sync of its A3C, TRUE when on
    at,            \* per worker: position inside A3C.update
    issued,        \* per worker: the remote calls of its current top-level call
    ret,           \* per worker: outcome of its last call, as seen by the caller
    entry,         \* per worker: disable_sync when its current update began
    steps          \* per worker: inference calls made by the current update body

\* the state of the replay buffer and of the A3C objects
store == <<buffer_size, buffer, index, last, hist, fresh, pc, loc, base, round>>

sync == <<disable_sync, at, issued, ret, entry, steps>>

vars == <<store, sync>>

Workers == {1, 2}

\* what act, eval_act, criticize, manual_sync or update hands back
Ret(op, pull, pulled, inside, ok) ==
    [op |-> op, pull |-> pull, pulled |-> pulled, inside |-> inside, ok |-> ok]

NoRet == Ret("", FALSE, FALSE, FALSE, TRUE)

Producers == {1, 2}

NoTransition == [id |-> 0, keys |-> {}, length |-> 0, unit |-> 0, reward |-> ""]

\* what a call hands back: ok with a position (append) or a count and the
\* selected transitions (sample_batch), or the exception raised; batch of an
\* append is the transition passed in
Outcome(op, method, ok, err, position, count, batch) ==
    [op |-> op, method |-> method, ok |-> ok, err |-> err, position |-> position,
     count |-> count, batch |-> batch,
     arg |-> NoMapping, asked |-> -1, concatenate |-> FALSE,
     sample_keys |-> << >>, result |-> << >>]

NoLocals ==
    [t |-> NoTransition, required_keys |-> {}, position |-> -1, tmp |-> -1,
     sliced |-> << >>, err |-> ""]

\* ReplayBuffer.size
size(buf) == Len(buf)

\* append, line 125: the only homogeneity test is on the number of attributes
length_differs(buf, t) == size(buf) # 0 /\ buf[1].length # t.length

\* a trim that cuts from the back
trim_from_back(buf, cap) ==
    IF size(buf) > cap THEN SubSeq(buf, 1, cap) ELSE buf

\* append, lines 127-129: trim buffer to buffer_size, from the front
trim(buf, cap) ==
    IF size(buf) > cap THEN SubSeq(buf, size(buf) - cap + 1, size(buf)) ELSE buf

\* a fullness test that is off by one
is_full_late(buf, cap) == size(buf) = cap + 1

\* append, line 130
is_full(buf, cap) == size(buf) = cap

\* a slot write one behind the cursor (Python wraps index -1 to the end)
set_item_behind(buf, idx, t) == [buf EXCEPT ![((idx - 1) % Len(buf)) + 1] = t]

\* append, line 132: self.buffer[self.index] = transition
set_item(buf, idx, t) == [buf EXCEPT ![idx + 1] = t]

\* a cursor that is never advanced
advance_never(idx, cap) == idx

\* append, lines 133-134: self.index += 1; self.index %= self.buffer_size
advance(idx, cap) == (idx + 1) % cap

\* a growth step that inserts at the head
push_front(buf, t) == <<t>> \o buf

\* append, line 136: self.buffer.append(transition)
push_back(buf, t) == Append(buf, t)

\* clear, line 148: self.buffer.clear(); self.index is not touched
cleared_buffer(buf) == << >>
cleared_index(idx) == idx

\* ReplayBuffer.__init__
Init ==
    /\ buffer_size \in 1..MaxCapacity
    /\ buffer = << >>
    /\ index = 0
    /\ last = Outcome("init", "", TRUE, "", -1, 0, << >>)
    /\ hist = << >>
    /\ fresh = TRUE
    /\ pc = [p \in Producers |-> "idle"]
    /\ loc = [p \in Producers |-> NoLocals]
    /\ base = [buffer |-> << >>, index |-> 0]
    /\ round = 0
    /\ disable_sync = [w \in Workers |-> FALSE]
    /\ at = [w \in Workers |-> "idle"]
    /\ issued = [w \in Workers |-> << >>]
    /\ ret = [w \in Workers |-> NoRet]
    /\ entry = [w \in Workers |-> FALSE]
    /\ steps = [w \in Workers |-> 0]

\* an append that stores first and validates afterwards
append_result_store_first(buf, idx, cap, t, required_keys) ==
    LET b == trim(buf, cap)
        stored == IF is_full(b, cap)
                  THEN [buffer |-> set_item(b, idx, t), index |-> advance(idx, cap),
                        position |-> idx]
                  ELSE [buffer |-> push_back(b, t), index |-> idx,
                        position |-> size(push_back(b, t)) - 1]
    IN IF ~has_keys(t, required_keys)
       THEN [buffer |-> stored.buffer, index |-> stored.index, ok |-> FALSE,
             err |-> "RuntimeError", position |-> -1]
       ELSE IF length_differs(buf, t)
       THEN [buffer |-> stored.buffer, index |-> stored.index, ok |-> FALSE,
             err |-> "ValueError", position |-> -1]
       ELSE [buffer |-> stored.buffer, index |-> stored.index, ok |-> TRUE,
             err |-> "", position |-> stored.position]

\* ReplayBuffer.append, lines 120-138, as a function of the object's state:
\* the buffer and index it leaves, and the position returned or the
\* exception raised
append_result(buf, idx, cap, t, required_keys) ==
    IF ~has_keys(t, required_keys)
    THEN [buffer |-> buf, index |-> idx, ok |-> FALSE, err |-> "RuntimeError",
          position |-> -1]
    ELSE IF length_differs(buf, t)
    THEN [buffer |-> buf, index |-> idx, ok |-> FALSE, err |-> "ValueError",
          position |-> -1]
    ELSE LET b == trim(buf, cap) IN
         IF is_full(b, cap)
         THEN [buffer |-> set_item(b, idx, t), index |-> advance(idx, cap),
               ok |-> TRUE, err |-> "", position |-> idx]
         ELSE [buffer |-> push_back(b, t), index |-> idx,
               ok |-> TRUE, err |-> "", position |-> size(push_back(b, t)) - 1]

\* ReplayBuffer.append as one uninterrupted call
append(t, required_keys) ==
    LET r == append_result(buffer, index, buffer_size, t, required_keys) IN
    /\ Len(hist) < MaxAppends
    /\ buffer' = r.buffer
    /\ index' = r.index
    /\ hist' = IF r.ok THEN Append(hist, t) ELSE hist
    /\ last' = Outcome("append", "", r.ok, r.err, r.position, 0, <<t>>)
    /\ UNCHANGED <<sync, buffer_size, fresh, pc, loc, base, round>>

\* ReplayBuffer.append given a dict, lines 118-119: the Transition is built
\* first, and an exception of its constructor leaves append before anything
\* else has run
append_mapping(m, required_keys) ==
    IF check_input(m).ok
    THEN append(construct(Len(hist) + 1, m), required_keys)
    ELSE /\ Len(hist) < MaxAppends
         /\ last' = [Outcome("append", "", FALSE, check_input(m).err, -1, 0,
                              <<NoTransition>>) EXCEPT !.arg = m]
         /\ UNCHANGED <<sync, buffer_size, buffer, index, hist, fresh, pc, loc, base, round>>

\* ReplayBuffer.clear
clear ==
    /\ buffer' = cleared_buffer(buffer)
    /\ index' = cleared_index(index)
    /\ fresh' = FALSE
    /\ last' = Outcome("clear", "", TRUE, "", -1, 0, << >>)
    /\ UNCHANGED <<sync, buffer_size, hist, pc, loc, base, round>>

\* ------------------------------------------------------------- sampling
SampleMethods == {"random_unique", "random", "all", "bogus"}

\* sample_batch, line 201: hasattr(self, "sample_method_" + sample_method)
has_sample_method(m) == m \in {"random_unique", "random", "all"}

Range_of(q) == { q[i] : i \in 1..Len(q) }

Injective(f) == \A i, j \in DOMAIN f : f[i] = f[j] => i = j

Min(a, b) == IF a < b THEN a ELSE b

\* a draw of min(batch_size, len) positions that may repeat
sample_method_random_unique_repeating(buf, batch_size) ==
    LET real_num == Min(batch_size, Len(buf)) IN
    { [batch |-> [i \in 1..real_num |-> buf[f[i]]], real_num |-> real_num] :
        f \in [1..real_num -> 1..Len(buf)] }

\* sample_method_random_unique: random.sample draws real_num distinct
\* positions, in any order
sample_method_random_unique(buf, batch_size) ==
    LET real_num == Min(batch_size, Len(buf)) IN
    { [batch |-> [i \in 1..real_num |-> buf[f[i]]], real_num |-> real_num] :
        f \in { g \in [1..real_num -> 1..Len(buf)] : Injective(g) } }

\* a draw with replacement that stops at the length of the buffer
sample_method_random_capped(buf, batch_size) ==
    LET real_num == Min(batch_size, Len(buf)) IN
    { [batch |-> [i \in 1..real_num |-> buf[f[i]]], real_num |-> real_num] :
        f \in [1..real_num -> 1..Len(buf)] }

\* sample_method_random: batch_size independent draws of randint(0, len - 1)
sample_method_random(buf, batch_size) ==
    { [batch |-> [i \in 1..batch_size |-> buf[f[i]]], real_num |-> batch_size] :
        f \in [1..batch_size -> 1..Len(buf)] }

\* an "all" that honours batch_size
sample_method_all_capped(buf, batch_size) ==
    { [batch |-> SubSeq(buf, 1, Min(batch_size, Len(buf))),
       real_num |-> Min(batch_size, Len(buf))] }

\* sample_method_all: the list itself and its length
sample_method_all(buf, batch_size) ==
    { [batch |-> buf, real_num |-> Len(buf)] }

\* ------------------------------------------------------- concatenation
\* ReplayBuffer.__init__, line 107: the default main_attributes
main_attrs == {"state", "action", "next_state"}

\* Transition.keys(): the fixed list, then the custom names
KeyOrder == <<"state", "action", "next_state", "reward", "terminal", "value", "log_prob">>

keys_list(t) == SelectSeq(KeyOrder, LAMBDA k : k \in t.keys)

\* sample_keys = None
DefaultKeys == <<"None">>

RECURSIVE SumUnits(_)
SumUnits(batch) ==
    IF Len(batch) = 0 THEN 0 ELSE batch[1].unit + SumUnits(Tail(batch))

\* One element of the tuple concatenate_batch returns, for key k; an
\* exception is an element with its name as kind and no shape.
\*   lines 221-229  a main attribute: per sub-key, torch.cat of the items'
\*                  tensors along dimension 0 (leading dimension: the sum of
\*                  the items' leading dimensions), or the list of them;
\*   lines 230-237  reward: torch.cat(...).view(batch_size, -1) when the first
\*                  item's reward is a tensor (rewards are [unit, 1] tensors),
\*                  else a [batch_size, 1] tensor of float(item.reward);
\*   lines 238-241  terminal: a [batch_size, 1] tensor of 0.0 / 1.0;
\*   lines 252-258  a custom attribute: the list of the items' values.
batch_entry(k, batch, batch_size, concatenate) ==
    IF k \in main_attrs
    THEN IF Len(batch) = 0
         THEN \* line 223: batch[0]
              [key |-> k, kind |-> "IndexError", shape |-> << >>]
         ELSE IF concatenate
         THEN [key |-> k, kind |-> "tensors", shape |-> <<SumUnits(batch)>>]
         ELSE [key |-> k, kind |-> "lists", shape |-> <<Len(batch)>>]
    ELSE IF k = "reward"
    THEN IF Len(batch) = 0
         THEN \* line 231: batch[0]
              [key |-> k, kind |-> "IndexError", shape |-> << >>]
         ELSE IF batch[1].reward = "tensor"
         THEN IF \E i \in 1..Len(batch) : batch[i].reward # "tensor"
              THEN \* item[k].to(device) of a float
                   [key |-> k, kind |-> "AttributeError", shape |-> << >>]
              ELSE IF batch_size = 0 \/ SumUnits(batch) % batch_size # 0
              THEN \* view(batch_size, -1) that does not divide
                   [key |-> k, kind |-> "RuntimeError", shape |-> << >>]
              ELSE [key |-> k, kind |-> "tensor",
                    shape |-> <<batch_size, SumUnits(batch) \div batch_size>>]
         ELSE IF \E i \in 1..Len(batch) : batch[i].unit > 1
              THEN \* float() of a tensor with several elements
                   [key |-> k, kind |-> "ValueError", shape |-> << >>]
              ELSE [key |-> k, kind |-> "tensor", shape |-> <<batch_size, 1>>]
    ELSE IF k = "terminal"
    THEN IF Len(batch) = 0 \/ batch_size = 0 \/ Len(batch) % batch_size # 0
         THEN \* view(batch_size, -1) of no element, or that does not divide
              [key |-> k, kind |-> "RuntimeError", shape |-> << >>]
         ELSE [key |-> k, kind |-> "tensor",
               shape |-> <<batch_size, Len(batch) \div batch_size>>]
    ELSE IF \E i \in 1..Len(batch) : k \notin batch[i].keys
    THEN \* getattr of an attribute the item does not have
         [key |-> k, kind |-> "AttributeError", shape |-> << >>]
    ELSE [key |-> k, kind |-> "list", shape |-> <<Len(batch)>>]

\* lines 242-251: "*" selects the custom keys that are not in used_keys
wildcard_keys(batch, used_keys) ==
    SelectSeq(keys_list(batch[1]),
              LAMBDA k : k \notin CoreKeys /\ k \notin Range_of(used_keys))

\* ReplayBuffer.concatenate_batch, lines 216-259: the loop over sample_keys
\* from position i on, with the keys used so far
RECURSIVE concatenate_from(_, _, _, _, _, _)
concatenate_from(i, used_keys, batch, batch_size, concatenate, sample_keys) ==
    IF i > Len(sample_keys) THEN << >>
    ELSE LET k == sample_keys[i] IN
         IF k = "*" /\ Len(batch) = 0
         THEN \* line 244: batch[0]
              <<[key |-> k, kind |-> "IndexError", shape |-> << >>]>>
         ELSE IF k = "*"
         THEN [j \in 1..Len(wildcard_keys(batch, used_keys)) |->
                  batch_entry(wildcard_keys(batch, used_keys)[j], batch,
                              batch_size, concatenate)]
              \o concatenate_from(i + 1, used_keys, batch, batch_size,
                                  concatenate, sample_keys)
         ELSE <<batch_entry(k, batch, batch_size, concatenate)>>
              \o concatenate_from(i + 1, Append(used_keys, k), batch, batch_size,
                                  concatenate, sample_keys)

concatenate_batch(batch, batch_size, concatenate, sample_keys) ==
    concatenate_from(1, << >>, batch, batch_size, concatenate, sample_keys)

\* the exception concatenate_batch leaves with, "" if none
concatenate_error(result) ==
    IF \E i \in 1..Len(result) : result[i].shape = << >>
    THEN result[CHOOSE i \in 1..Len(result) :
                  /\ result[i].shape = << >>
                  /\ \A j \in 1..(i - 1) : result[j].shape # << >>].kind
    ELSE ""

SampleOutcome(method, asked, concatenate, sample_keys, ok, err, count, batch, result) ==
    [Outcome("sample_batch", method, ok, err, -1, count, batch)
        EXCEPT !.asked = asked, !.concatenate = concatenate,
               !.sample_keys = sample_keys, !.result = result]

\* ReplayBuffer.sample_batch, lines 200-214
sample_batch_with(batch_size, concatenate, sample_method, sample_keys) ==
    /\ UNCHANGED <<sync, buffer_size, buffer, index, hist, fresh, pc, loc, base, round>>
    /\ IF ~has_sample_method(sample_method)
       THEN last' = SampleOutcome(sample_method, batch_size, concatenate, sample_keys,
                                  FALSE, "RuntimeError", 0, << >>, << >>)
       ELSE IF sample_method = "random" /\ batch_size > 0 /\ Len(buffer) = 0
       THEN \* random.randint(0, -1)
            last' = SampleOutcome(sample_method, batch_size, concatenate, sample_keys,
                                  FALSE, "ValueError", 0, << >>, << >>)
       ELSE \E r \in (CASE sample_method = "random_unique" ->
                             sample_method_random_unique(buffer, batch_size)
                        [] sample_method = "random" ->
                             sample_method_random(buffer, batch_size)
                        [] OTHER -> sample_method_all(buffer, batch_size)) :
            IF sample_keys = DefaultKeys /\ Len(r.batch) = 0
            THEN \* line 209: batch[0].keys()
                 last' = SampleOutcome(sample_method, batch_size, concatenate, sample_keys,
                                       FALSE, "IndexError", 0, << >>, << >>)
            ELSE \E result \in {concatenate_batch(r.batch, r.real_num, concatenate,
                                                  IF sample_keys = DefaultKeys
                                                  THEN keys_list(r.batch[1])
                                                  ELSE sample_keys)} :
                   \E err \in {concatenate_error(result)} :
                     last' = IF err # ""
                             THEN SampleOutcome(sample_method, batch_size, concatenate,
                                                sample_keys, FALSE, err, 0, << >>, << >>)
                             ELSE SampleOutcome(sample_method, batch_size, concatenate,
                                                sample_keys, TRUE, "", r.real_num, r.batch,
                                                result)

\* ReplayBuffer.sample_batch with the defaults concatenate = True and
\* sample_keys = None
sample_batch(batch_size, sample_method) ==
    sample_batch_with(batch_size, TRUE, sample_method, DefaultKeys)

\* ------------------------------------------------- the sequential program
Next ==
    \/ \E ext \in ExtChoices, req \in RequiredChoices :
           append(Transition(Len(hist) + 1, ext), req)
    \/ \E m \in StepMappings, req \in RequiredChoices : append_mapping(m, req)
    \/ clear
    \/ \E n \in 0..MaxBatch, m \in SampleMethods : sample_batch(n, m)

Spec == Init /\ [][Next]_vars

\* The same program fed by producers that attach different custom
\* attributes (MixedExtChoices).
NextMixed ==
    \/ \E ext \in MixedExtChoices, req \in RequiredChoices :
           append(Transition(Len(hist) + 1, ext), req)
    \/ clear
    \/ \E n \in 0..MaxBatch, m \in SampleMethods : sample_batch(n, m)

SpecMixed == Init /\ [][NextMixed]_vars

\* ------------------------------------------- constructing transitions
\* The keyword arguments a caller can hand to Transition(...): state, action
\* and next_state dicts of tensors or not, with leading dimensions n and k,
\* and a reward that is a float, an int, or a tensor of 0, 1 or 2 dimensions.
TransitionMappings ==
    { Mapping(ext, b, Shapes(n, k), r, << >>) :
          ext \in ExtChoices, b \in BOOLEAN, n \in 1..MaxUnit, k \in 1..MaxUnit,
          r \in {"float", "int"} }
    \cup { Mapping(ext, b, Shapes(n, k), "tensor", q) :
              ext \in ExtChoices, b \in BOOLEAN, n \in 1..MaxUnit, k \in 1..MaxUnit,
              q \in {<< >>} \cup { <<u>> : u \in 1..MaxUnit }
                         \cup { <<u, 1>> : u \in 1..MaxUnit } }

\* Transition.__init__, lines 16-34: Transition(**m), returning the object or
\* leaving with the exception of _check_input
new_Transition(m) ==
    /\ last' = IF check_input(m).ok
               THEN [Outcome("Transition", "", TRUE, "", -1, 0,
                             <<construct(Len(hist) + 1, m)>>) EXCEPT !.arg = m]
               ELSE [Outcome("Transition", "", FALSE, check_input(m).err, -1, 0,
                             <<NoTransition>>) EXCEPT !.arg = m]
    /\ UNCHANGED <<sync, buffer_size, buffer, index, hist, fresh, pc, loc, base, round>>

NextTransition == \E m \in TransitionMappings : new_Transition(m)

SpecTransition == Init /\ [][NextTransition]_vars

\* ------------------------------------------- pre-batched transitions
\* The dicts of producers that store pre-batched groups of n steps, each
\* with an [n, 1] reward tensor and a custom "value" attribute.
BatchMappings ==
    { Mapping({"value"}, TRUE, Shapes(n, n), "tensor", <<n, 1>>) : n \in 1..MaxUnit }

\* The sample_keys arguments: None, the list the algorithms pass (the fixed
\* attributes, then everything else), and lists naming a custom attribute
\* before or after the wildcard.
KeyChoices ==
    { DefaultKeys,
      <<"state", "action", "reward", "next_state", "terminal", "*">>,
      <<"value", "*">>,
      <<"*", "value">> }

NextBatch ==
    \/ \E m \in BatchMappings : append_mapping(m, CoreKeys)
    \/ \E n \in 1..MaxBatch, k \in KeyChoices,
          m \in {x \in SampleMethods : has_sample_method(x)} :
           sample_batch_with(n, TRUE, m, k)

SpecBatch == Init /\ [][NextBatch]_vars

\* ------------------------------------------- append, statement by statement
\* Several producers calling append on one ReplayBuffer object: the method
\* takes no lock, so the statements of two calls interleave.  Each action
\* below is one statement of lines 120-138 run by producer p; a statement
\* that reads and then rebinds an attribute (lines 129, 133, 134) is a read
\* step followed by a write step.

AllAt(states) == \A p \in Producers : pc[p] \in states

\* the producers of one round are started together on the shared buffer,
\* each with a transition of its own (as the ranks of run_multi each store)
spawn_with(ext_choices, required_choices) ==
    /\ AllAt({"idle", "done"})
    /\ round < MaxRounds
    /\ round' = round + 1
    /\ base' = [buffer |-> buffer, index |-> index]
    /\ \E exts \in [Producers -> ext_choices], reqs \in [Producers -> required_choices] :
         loc' = [p \in Producers |->
                   [NoLocals EXCEPT
                      !.t = Transition(round * Cardinality(Producers) + p, exts[p]),
                      !.required_keys = reqs[p]]]
    /\ pc' = [p \in Producers |-> "validate"]
    /\ UNCHANGED <<sync, buffer_size, buffer, index, last, hist, fresh>>

spawn == spawn_with(MixedExtChoices, RequiredChoices)

Goto(p, label) == pc' = [pc EXCEPT ![p] = label]

Shared == <<sync, buffer_size, buffer, index, last, hist, fresh, base, round>>

\* lines 120-126: the two raising tests
validate(p) ==
    /\ pc[p] = "validate"
    /\ IF ~has_keys(loc[p].t, loc[p].required_keys)
       THEN /\ loc' = [loc EXCEPT ![p].err = "RuntimeError"]
            /\ Goto(p, "done")
       ELSE IF length_differs(buffer, loc[p].t)
       THEN /\ loc' = [loc EXCEPT ![p].err = "ValueError"]
            /\ Goto(p, "done")
       ELSE /\ loc' = loc
            /\ Goto(p, "trim_test")
    /\ UNCHANGED Shared

\* line 127: if self.size() > self.buffer_size
trim_test(p) ==
    /\ pc[p] = "trim_test"
    /\ Goto(p, IF size(buffer) > buffer_size THEN "trim_read" ELSE "full_test")
    /\ UNCHANGED <<loc, Shared>>

\* line 129, right-hand side: the slice is a new list
trim_read(p) ==
    /\ pc[p] = "trim_read"
    /\ loc' = [loc EXCEPT ![p].sliced = trim(buffer, buffer_size)]
    /\ Goto(p, "trim_write")
    /\ UNCHANGED Shared

\* line 129, the assignment to self.buffer
trim_write(p) ==
    /\ pc[p] = "trim_write"
    /\ buffer' = loc[p].sliced
    /\ Goto(p, "full_test")
    /\ UNCHANGED <<sync, buffer_size, index, last, hist, fresh, base, round, loc>>

\* line 130: if self.size() == self.buffer_size
full_test(p) ==
    /\ pc[p] = "full_test"
    /\ Goto(p, IF is_full(buffer, buffer_size) THEN "read_position" ELSE "push_back")
    /\ UNCHANGED <<loc, Shared>>

\* line 131: position = self.index
read_position(p) ==
    /\ pc[p] = "read_position"
    /\ loc' = [loc EXCEPT ![p].position = index]
    /\ Goto(p, "set_item")
    /\ UNCHANGED Shared

\* line 132: self.buffer[self.index] = transition; a list raises IndexError
\* for an index that is not below its length
store_item(p) ==
    /\ pc[p] = "set_item"
    /\ IF index < size(buffer)
       THEN /\ buffer' = set_item(buffer, index, loc[p].t)
            /\ hist' = Append(hist, loc[p].t)
            /\ loc' = loc
            /\ Goto(p, "inc_read")
       ELSE /\ loc' = [loc EXCEPT ![p].err = "IndexError"]
            /\ Goto(p, "done")
            /\ UNCHANGED <<buffer, hist>>
    /\ UNCHANGED <<sync, buffer_size, index, last, fresh, base, round>>

\* line 133, self.index += 1: the read
inc_read(p) ==
    /\ pc[p] = "inc_read"
    /\ loc' = [loc EXCEPT ![p].tmp = index]
    /\ Goto(p, "inc_write")
    /\ UNCHANGED Shared

\* line 133: the write
inc_write(p) ==
    /\ pc[p] = "inc_write"
    /\ index' = loc[p].tmp + 1
    /\ Goto(p, "mod_read")
    /\ UNCHANGED <<sync, buffer_size, buffer, last, hist, fresh, base, round, loc>>

\* line 134, self.index %= self.buffer_size: the read
mod_read(p) ==
    /\ pc[p] = "mod_read"
    /\ loc' = [loc EXCEPT ![p].tmp = index]
    /\ Goto(p, "mod_write")
    /\ UNCHANGED Shared

\* line 134: the write
mod_write(p) ==
    /\ pc[p] = "mod_write"
    /\ index' = loc[p].tmp % buffer_size
    /\ Goto(p, "done")
    /\ UNCHANGED <<sync, buffer_size, buffer, last, hist, fresh, base, round, loc>>

\* line 136: self.buffer.append(transition)
push_item(p) ==
    /\ pc[p] = "push_back"
    /\ buffer' = push_back(buffer, loc[p].t)
    /\ hist' = Append(hist, loc[p].t)
    /\ Goto(p, "length_read")
    /\ UNCHANGED <<sync, buffer_size, index, last, fresh, base, round, loc>>

\* line 137: position = len(self.buffer) - 1
length_read(p) ==
    /\ pc[p] = "length_read"
    /\ loc' = [loc EXCEPT ![p].position = size(buffer) - 1]
    /\ Goto(p, "done")
    /\ UNCHANGED Shared

NextConcurrent ==
    \/ spawn
    \/ \E p \in Producers : validate(p)
    \/ \E p \in Producers : trim_test(p)
    \/ \E p \in Producers : trim_read(p)
    \/ \E p \in Producers : trim_write(p)
    \/ \E p \in Producers : full_test(p)
    \/ \E p \in Producers : read_position(p)
    \/ \E p \in Producers : store_item(p)
    \/ \E p \in Producers : inc_read(p)
    \/ \E p \in Producers : inc_write(p)
    \/ \E p \in Producers : mod_read(p)
    \/ \E p \in Producers : mod_write(p)
    \/ \E p \in Producers : push_item(p)
    \/ \E p \in Producers : length_read(p)

SpecConcurrent == Init /\ [][NextConcurrent]_vars

\* ------------------------------------- an append after concurrent appends
\* append called while no other append is running, with a transition of the
\* core attributes
append_alone ==
    /\ AllAt({"idle", "done"})
    /\ append(Transition(MaxRounds * Cardinality(Producers) + Len(hist) + 1, {}),
              CoreKeys)

\* rounds of concurrent appends of transitions of the core attributes, with
\* uninterrupted appends before, between and after them
NextOvershoot ==
    \/ spawn_with({{}}, {CoreKeys})
    \/ \E p \in Producers : validate(p)
    \/ \E p \in Producers : trim_test(p)
    \/ \E p \in Producers : trim_read(p)
    \/ \E p \in Producers : trim_write(p)
    \/ \E p \in Producers : full_test(p)
    \/ \E p \in Producers : read_position(p)
    \/ \E p \in Producers : store_item(p)
    \/ \E p \in Producers : inc_read(p)
    \/ \E p \in Producers : inc_write(p)
    \/ \E p \in Producers : mod_read(p)
    \/ \E p \in Producers : mod_write(p)
    \/ \E p \in Producers : push_item(p)
    \/ \E p \in Producers : length_read(p)
    \/ append_alone

SpecOvershoot == Init /\ [][NextOvershoot]_vars

\* -------------------------------------------------------------------- A3C
\* Switch: on() sets the flag, off() clears it, get() reads it
on(flag) == TRUE

off(flag) == FALSE

get(flag) == flag

\* a remote call to a gradient server: pull or push of the actor or the
\* critic, answered (ok) or failed
Remote(kind, model, ok) == [kind |-> kind, model |-> model, ok |-> ok]

\* lines 84, 95, 101: if pull and not self._disable_sync.get()
should_pull_ungated(pull, flag) == pull

should_pull(pull, flag) == pull /\ ~get(flag)

\* a call that swallows the failure of its pull, tries the pull once more
\* and calls the model whatever came of it
infer_retrying(w, op, model, pull) ==
    /\ at[w] \in {"idle", "body"}
    /\ at[w] = "body" => steps[w] < MaxBodyCalls
    /\ \E ok \in BOOLEAN :
         LET inside == at[w] = "body"
             pulls == should_pull(pull, disable_sync[w])
             calls == IF ~pulls THEN << >>
                      ELSE IF ok THEN <<Remote("pull", model, TRUE)>>
                      ELSE <<Remote("pull", model, FALSE), Remote("pull", model, TRUE)>>
         IN /\ ~pulls => ok
            /\ issued' = [issued EXCEPT ![w] = IF inside THEN @ \o calls ELSE calls]
            /\ ret' = [ret EXCEPT ![w] = Ret(op, pull, pulls, inside, TRUE)]
            /\ steps' = [steps EXCEPT ![w] = IF inside THEN @ + 1 ELSE 0]
    /\ UNCHANGED <<store, disable_sync, entry, at>>

\* A3C.act, eval_act and criticize, lines 82-103: pull the model from its
\* server when should_pull, then call the model. Called by the owner of the
\* A3C (worker idle) or by the update body; a pull that fails raises, and
\* raises through the update body when called from there.
infer(w, op, model, pull) ==
    /\ at[w] \in {"idle", "body"}
    /\ at[w] = "body" => steps[w] < MaxBodyCalls
    /\ \E ok \in BOOLEAN :
         LET inside == at[w] = "body"
             pulls == should_pull(pull, disable_sync[w])
             calls == IF pulls THEN <<Remote("pull", model, ok)>> ELSE << >>
         IN /\ ~pulls => ok
            /\ issued' = [issued EXCEPT ![w] = IF inside THEN @ \o calls ELSE calls]
            /\ ret' = [ret EXCEPT ![w] = Ret(op, pull, pulls, inside, ok)]
            /\ steps' = [steps EXCEPT ![w] = IF inside /\ ok THEN @ + 1 ELSE 0]
            /\ at' = [at EXCEPT ![w] = IF ok THEN @ ELSE "idle"]
    /\ UNCHANGED <<store, disable_sync, entry>>

act(w, pull) == infer(w, "act", "actor", pull)

eval_act(w, pull) == infer(w, "eval_act", "actor", pull)

criticize(w, pull) == infer(w, "criticize", "critic", pull)

\* a manual_sync that pulls only while the switch is off
manual_sync_gated(w) ==
    /\ at[w] = "idle"
    /\ \E ok1, ok2 \in BOOLEAN :
         /\ (get(disable_sync[w]) \/ ~ok1) => ok2
         /\ get(disable_sync[w]) => ok1
         /\ issued' = [issued EXCEPT ![w] =
                          IF get(disable_sync[w]) THEN << >>
                          ELSE IF ok1 THEN <<Remote("pull", "actor", TRUE),
                                             Remote("pull", "critic", ok2)>>
                          ELSE <<Remote("pull", "actor", FALSE)>>]
         /\ ret' = [ret EXCEPT ![w] = Ret("manual_sync", TRUE, ~get(disable_sync[w]),
                                          FALSE, ok1 /\ ok2)]
    /\ UNCHANGED <<store, disable_sync, at, entry, steps>>

\* A3C.manual_sync, lines 78-80
manual_sync(w) ==
    /\ at[w] = "idle"
    /\ \E ok1, ok2 \in BOOLEAN :
         /\ ~ok1 => ok2
         /\ issued' = [issued EXCEPT ![w] =
                          IF ok1 THEN <<Remote("pull", "actor", TRUE),
                                        Remote("pull", "critic", ok2)>>
                          ELSE <<Remote("pull", "actor", FALSE)>>]
         /\ ret' = [ret EXCEPT ![w] = Ret("manual_sync", TRUE, TRUE, FALSE, ok1 /\ ok2)]
    /\ UNCHANGED <<store, disable_sync, at, entry, steps>>

\* the owner of the A3C switching its synchronisation off and on around its
\* own calls (test_full_train, lines 211 and 227)
disable_sync_on(w) ==
    /\ at[w] = "idle"
    /\ ~disable_sync[w]
    /\ disable_sync' = [disable_sync EXCEPT ![w] = on(@)]
    /\ UNCHANGED <<store, at, issued, ret, entry, steps>>

disable_sync_off(w) ==
    /\ at[w] = "idle"
    /\ disable_sync[w]
    /\ disable_sync' = [disable_sync EXCEPT ![w] = off(@)]
    /\ UNCHANGED <<store, at, issued, ret, entry, steps>>

\* an update that switches sync off for every worker, as one switch shared
\* by the whole process would
update_on_shared(w) ==
    /\ at[w] = "idle"
    /\ entry' = [entry EXCEPT ![w] = disable_sync[w]]
    /\ disable_sync' = [v \in Workers |-> on(disable_sync[v])]
    /\ at' = [at EXCEPT ![w] = "body"]
    /\ issued' = [issued EXCEPT ![w] = << >>]
    /\ ret' = [ret EXCEPT ![w] = NoRet]
    /\ steps' = [steps EXCEPT ![w] = 0]
    /\ UNCHANGED store

\* A3C.update, line 111: self._disable_sync.on(), then into A2C.update
update_on(w) ==
    /\ at[w] = "idle"
    /\ entry' = [entry EXCEPT ![w] = disable_sync[w]]
    /\ disable_sync' = [disable_sync EXCEPT ![w] = on(@)]
    /\ at' = [at EXCEPT ![w] = "body"]
    /\ issued' = [issued EXCEPT ![w] = << >>]
    /\ ret' = [ret EXCEPT ![w] = NoRet]
    /\ steps' = [steps EXCEPT ![w] = 0]
    /\ UNCHANGED store

\* lines 112-113: A2C.update, which calls self.act / eval_act / criticize
\* (the actions above, taken at "body"), returns
update_body_return(w) ==
    /\ at[w] = "body"
    /\ at' = [at EXCEPT ![w] = "off"]
    /\ steps' = [steps EXCEPT ![w] = 0]
    /\ UNCHANGED <<store, disable_sync, issued, ret, entry>>

\* lines 112-113: A2C.update raises, and update with it
update_body_raise(w) ==
    /\ at[w] = "body"
    /\ at' = [at EXCEPT ![w] = "idle"]
    /\ ret' = [ret EXCEPT ![w] = Ret("update", FALSE, FALSE, FALSE, FALSE)]
    /\ steps' = [steps EXCEPT ![w] = 0]
    /\ UNCHANGED <<store, disable_sync, issued, entry>>

\* an off() that undoes only the on() of this update, as a counting latch would
update_off_counting(w) ==
    /\ at[w] = "off"
    /\ disable_sync' = [disable_sync EXCEPT ![w] = entry[w]]
    /\ at' = [at EXCEPT ![w] = "push_actor"]
    /\ UNCHANGED <<store, issued, ret, entry, steps>>

\* line 114: self._disable_sync.off()
update_off(w) ==
    /\ at[w] = "off"
    /\ disable_sync' = [disable_sync EXCEPT ![w] = off(@)]
    /\ at' = [at EXCEPT ![w] = "push_actor"]
    /\ UNCHANGED <<store, issued, ret, entry, steps>>

\* an actor push whose failure is passed over: the critic is pushed next
update_push_actor_continuing(w) ==
    /\ at[w] = "push_actor"
    /\ \E ok \in BOOLEAN :
         issued' = [issued EXCEPT ![w] = Append(@, Remote("push", "actor", ok))]
    /\ at' = [at EXCEPT ![w] = "push_critic"]
    /\ UNCHANGED <<store, disable_sync, ret, entry, steps>>

\* an actor push that waits until no other worker is pushing
update_push_actor_exclusive(w) ==
    /\ at[w] = "push_actor"
    /\ \A v \in Workers \ {w} : at[v] \notin {"push_actor", "push_critic"}
    /\ \E ok \in BOOLEAN :
         /\ issued' = [issued EXCEPT ![w] = Append(@, Remote("push", "actor", ok))]
         /\ at' = [at EXCEPT ![w] = IF ok THEN "push_critic" ELSE "idle"]
         /\ ret' = [ret EXCEPT ![w] = IF ok THEN @
                                      ELSE Ret("update", FALSE, FALSE, FALSE, FALSE)]
    /\ UNCHANGED <<store, disable_sync, entry, steps>>

\* an update that goes on to the critic without pushing the actor
update_push_actor_skipped(w) ==
    /\ at[w] = "push_actor"
    /\ at' = [at EXCEPT ![w] = "push_critic"]
    /\ UNCHANGED <<store, disable_sync, issued, ret, entry, steps>>

\* line 115: self.actor_grad_server.push(self.actor)
update_push_actor(w) ==
    /\ at[w] = "push_actor"
    /\ \E ok \in BOOLEAN :
         /\ issued' = [issued EXCEPT ![w] = Append(@, Remote("push", "actor", ok))]
         /\ at' = [at EXCEPT ![w] = IF ok THEN "push_critic" ELSE "idle"]
         /\ ret' = [ret EXCEPT ![w] = IF ok THEN @
                                      ELSE Ret("update", FALSE, FALSE, FALSE, FALSE)]
    /\ UNCHANGED <<store, disable_sync, entry, steps>>

\* a critic push that, when it fails, switches sync off again and starts the
\* local update over
update_push_critic_reverting(w) ==
    /\ at[w] = "push_critic"
    /\ \E ok \in BOOLEAN :
         /\ issued' = [issued EXCEPT ![w] = Append(@, Remote("push", "critic", ok))]
         /\ ret' = [ret EXCEPT ![w] = IF ok THEN Ret("update", FALSE, FALSE, FALSE, TRUE)
                                      ELSE @]
         /\ at' = [at EXCEPT ![w] = IF ok THEN "idle" ELSE "body"]
         /\ disable_sync' = [disable_sync EXCEPT ![w] = IF ok THEN @ ELSE on(@)]
    /\ UNCHANGED <<store, entry, steps>>

\* line 116: self.critic_grad_server.push(self.critic), and update returns
update_push_critic(w) ==
    /\ at[w] = "push_critic"
    /\ \E ok \in BOOLEAN :
         /\ issued' = [issued EXCEPT ![w] = Append(@, Remote("push", "critic", ok))]
         /\ ret' = [ret EXCEPT ![w] = Ret("update", FALSE, FALSE, FALSE, ok)]
    /\ at' = [at EXCEPT ![w] = "idle"]
    /\ UNCHANGED <<store, disable_sync, entry, steps>>

\* an A3C is built with one replay size
InitSync == Init /\ buffer_size = MaxCapacity

NextSync ==
    \/ \E w \in Workers, pull \in BOOLEAN : act(w, pull)
    \/ \E w \in Workers, pull \in BOOLEAN : eval_act(w, pull)
    \/ \E w \in Workers, pull \in BOOLEAN : criticize(w, pull)
    \/ \E w \in Workers : manual_sync(w)
    \/ \E w \in Workers : disable_sync_on(w)
    \/ \E w \in Workers : disable_sync_off(w)
    \/ \E w \in Workers : update_on(w)
    \/ \E w \in Workers : update_body_return(w)
    \/ \E w \in Workers : update_body_raise(w)
    \/ \E w \in Workers : update_off(w)
    \/ \E w \in Workers : update_push_actor(w)
    \/ \E w \in Workers : update_push_critic(w)

SpecSync == InitSync /\ [][NextSync]_vars

\* the steps by which an update that has begun goes on: its body returning or
\* raising, the switch being turned off, the pushes being answered
Progress(w) ==
    \/ update_body_return(w)
    \/ update_body_raise(w)
    \/ update_off(w)
    \/ update_push_actor(w)
    \/ update_push_critic(w)

\* every worker is a process of its own that keeps running, the update body
\* ends, and the servers answer
SpecSyncFair == SpecSync /\ \A w \in Workers : WF_vars(Progress(w))

\* ------------------------------------------------------------ properties
Range(s) == { s[i] : i \in 1..Len(s) }

\* the n most recently stored transitions, oldest first
LastN(s, n) == SubSeq(s, Len(s) - n + 1, Len(s))

\* the list read from slot k (0-based) to the end and then from the start
Rotate(s, k) == SubSeq(s, k + 1, Len(s)) \o SubSeq(s, 1, k)

Ids(s) == [i \in 1..Len(s) |-> s[i].id]

\* C1: on a buffer that was never cleared, after N <= buffer_size stored
\* transitions size() is N and the list is exactly those N transitions at
\* indices 0..N-1 in the order they were stored.
C1_GrowthKeepsInsertionOrder ==
    (fresh /\ Len(hist) <= buffer_size) =>
        (size(buffer) = Len(hist) /\ buffer = hist)

C1_Witness ==
    /\ fresh /\ buffer_size > 1 /\ Len(hist) = buffer_size
    /\ last.op = "append" /\ last.ok

\* C2: on a buffer that was never cleared, after N > buffer_size stored
\* transitions size() is buffer_size and the set of stored transitions is
\* exactly the buffer_size most recently stored ones.
C2_HoldsMostRecent ==
    (fresh /\ Len(hist) > buffer_size) =>
        /\ size(buffer) = buffer_size
        /\ Range(buffer) = Range(LastN(hist, buffer_size))
        /\ Cardinality(Range(buffer)) = buffer_size

C2_Witness ==
    /\ fresh /\ buffer_size >= 2 /\ Len(hist) >= buffer_size + 2
    /\ last.op = "append" /\ last.ok

C4_CursorAtOldest ==
    is_full(buffer, buffer_size) =>
        \A i \in 1..size(buffer) : buffer[index + 1].id <= buffer[i].id

\* C5: after clear() size() is 0 and the cursor is 0.
C5_ClearResetsCursor ==
    last.op = "clear" => (size(buffer) = 0 /\ index = 0)

\* the state two appends leave when run one after the other, first p then q
SerialPair(p, q) ==
    LET a == append_result(base.buffer, base.index, buffer_size,
                           loc[p].t, loc[p].required_keys)
        b == append_result(a.buffer, a.index, buffer_size,
                           loc[q].t, loc[q].required_keys)
    IN [buffer |-> b.buffer, index |-> b.index]

\* C6: every interleaving of two concurrent appends ends in a state that
\* one of the two sequential orders of the same appends produces.
C6_ConcurrentAppendsSerializable ==
    AllAt({"done"}) =>
        [buffer |-> buffer, index |-> index] \in {SerialPair(1, 2), SerialPair(2, 1)}

\* C7: size() <= buffer_size in every state, also while appends of several
\* producers interleave.
C7_ConcurrentSizeWithinCapacity == size(buffer) <= buffer_size

\* C8: with calls made one at a time (append, clear, sample_batch) on a
\* buffer of positive buffer_size, 0 <= size() <= buffer_size always.
C8_SizeWithinCapacity ==
    /\ buffer_size > 0
    /\ 0 <= size(buffer)
    /\ size(buffer) <= buffer_size

C8_Witness ==
    /\ ~fresh /\ size(buffer) = buffer_size
    /\ last.op = "sample_batch" /\ last.ok

\* C9: a successful append on a full buffer puts the new transition in the
\* slot at the cursor, advances the cursor to (cursor + 1) mod buffer_size
\* and leaves every other slot and size() as they were.
C9_FullAppendFrame ==
    [][(hist' # hist /\ last'.op = "append" /\ last'.ok
            /\ size(buffer) = buffer_size) =>
         /\ index' = (index + 1) % buffer_size
         /\ size(buffer') = size(buffer)
         /\ buffer'[index + 1] = last'.batch[1]
         /\ last'.position = index
         /\ \A i \in 1..size(buffer) : i # index + 1 => buffer'[i] = buffer[i]]_vars

C9_Witness ==
    /\ fresh /\ buffer_size >= 2 /\ Len(hist) = buffer_size + 1
    /\ last.op = "append" /\ last.ok /\ last.position = 0
    /\ index = 1 /\ buffer[1] = last.batch[1]

\* C10: all stored transitions share one field-name set: an append whose
\* field-name set differs from that of the stored transitions (same number
\* of fields included) is refused and leaves the buffer as it was.
C10_StoredShareFieldNames ==
    \A i, j \in 1..size(buffer) : buffer[i].keys = buffer[j].keys

\* C11: an append that fails validation (a dict no Transition can be built
\* from, a required key absent, a different number of attributes) raises and
\* leaves the buffer exactly as it was: same list, same size(), same cursor.
C11_FailedAppendLeavesStore ==
    [][(last'.op = "append" /\ ~last'.ok) =>
         /\ last'.err # ""
         /\ buffer' = buffer
         /\ size(buffer') = size(buffer)
         /\ index' = index
         /\ hist' = hist]_vars

C11_Witness ==
    /\ last.op = "append" /\ ~last.ok /\ last.err = "ValueError"
    /\ size(buffer) = buffer_size /\ index # 0

\* C12: a successful append returns the index written to: the list holds
\* the new transition at the returned position, which is size() - 1 while
\* the buffer grows and the cursor before the call once it is full.
C12_ReturnsIndexWritten ==
    [][(last'.op = "append" /\ last'.ok /\ hist' # hist) =>
         /\ last'.position + 1 \in 1..size(buffer')
         /\ buffer'[last'.position + 1] = last'.batch[1]
         /\ size(buffer) < buffer_size => last'.position = size(buffer') - 1
         /\ size(buffer) = buffer_size => last'.position = index]_vars

C12_Witness ==
    /\ last.op = "append" /\ last.ok /\ ~fresh
    /\ size(buffer) = buffer_size /\ buffer_size >= 2
    /\ last.position # size(buffer) - 1
    /\ buffer[last.position + 1] = last.batch[1]

BuiltinMethod(m) == m \in {"random", "random_unique", "all"}

\* C13: sample_batch on an empty buffer returns None and does not raise,
\* for each of random, random_unique and all and any batch_size.
C13_EmptySampleDoesNotRaise ==
    (last.op = "sample_batch" /\ BuiltinMethod(last.method) /\ size(buffer) = 0)
        => last.err = ""

\* how often transition t occurs in batch
Occurrences(t, batch) == Cardinality({ j \in 1..Len(batch) : batch[j] = t })

\* a selection of count transitions, each stored, none chosen twice, and
\* count = min(asked, size())
UniqueSelection(batch, count, asked) ==
    /\ count = (IF asked <= size(buffer) THEN asked ELSE size(buffer))
    /\ Len(batch) = count
    /\ \A j \in 1..Len(batch) : batch[j] \in Range(buffer)
    /\ \A j \in 1..Len(batch) : Occurrences(batch[j], batch) = 1
    /\ asked >= size(buffer) =>
           \A i \in 1..size(buffer) : Occurrences(buffer[i], batch) = 1

\* C14: on a non-empty buffer random_unique selects min(batch_size, size())
\* stored transitions from pairwise distinct slots and reports that number;
\* with batch_size >= size() it returns every stored transition once.
C14_RandomUniqueSelection ==
    /\ size(buffer) > 0 =>
           \A n \in 0..MaxBatch :
               \A r \in sample_method_random_unique(buffer, n) :
                   UniqueSelection(r.batch, r.real_num, n)
    /\ (last.op = "sample_batch" /\ last.method = "random_unique" /\ last.ok) =>
           UniqueSelection(last.batch, last.count, last.asked)

C14_Witness ==
    /\ last.op = "sample_batch" /\ last.method = "random_unique" /\ last.ok
    /\ size(buffer) >= 2 /\ last.asked >= size(buffer)
    /\ last.batch # buffer

\* a selection of exactly asked transitions, each stored
RepeatingSelection(batch, count, asked) ==
    /\ count = asked
    /\ Len(batch) = asked
    /\ \A j \in 1..Len(batch) : batch[j] \in Range(buffer)

\* C15: on a non-empty buffer random returns exactly batch_size selections
\* (also when batch_size > size()), each a stored transition, repeats
\* allowed.
C15_RandomSelection ==
    /\ size(buffer) > 0 =>
           \A n \in 0..MaxBatch :
               /\ sample_method_random(buffer, n) # {}
               /\ \A r \in sample_method_random(buffer, n) :
                      RepeatingSelection(r.batch, r.real_num, n)
    /\ (last.op = "sample_batch" /\ last.method = "random" /\ last.ok) =>
           RepeatingSelection(last.batch, last.count, last.asked)

C15_Witness ==
    /\ last.op = "sample_batch" /\ last.method = "random" /\ last.ok
    /\ last.asked > size(buffer)
    /\ last.batch[1] = last.batch[2]

\* every stored transition once, and a count of size()
WholeBuffer(batch, count) ==
    /\ count = size(buffer)
    /\ Len(batch) = size(buffer)
    /\ \A i \in 1..size(buffer) : Occurrences(buffer[i], batch) = 1

\* C16: on a non-empty buffer "all" returns every stored transition exactly
\* once with actual_count = size(), whatever batch_size is.
C16_AllSelection ==
    /\ size(buffer) > 0 =>
           \A n \in 0..MaxBatch :
               \A r \in sample_method_all(buffer, n) : WholeBuffer(r.batch, r.real_num)
    /\ (last.op = "sample_batch" /\ last.method = "all" /\ size(buffer) > 0) =>
           (last.ok /\ WholeBuffer(last.batch, last.count))

C16_Witness ==
    /\ last.op = "sample_batch" /\ last.method = "all" /\ last.ok
    /\ size(buffer) >= 2 /\ last.asked < size(buffer)
    /\ last.count = size(buffer)

\* C17: in a concatenated batch the leading dimension of every sub-array of
\* state, action and next_state equals the number of records returned, and
\* the terminal output has shape [count, 1], also when the records selected
\* hold pre-batched groups of more than one step.
C17_ConcatenatedLeadingDimension ==
    (last.op = "sample_batch" /\ last.ok /\ last.concatenate) =>
        \A i \in 1..Len(last.result) :
            /\ last.result[i].key \in main_attrs =>
                   last.result[i].shape = <<last.count>>
            /\ last.result[i].key = "terminal" =>
                   last.result[i].shape = <<last.count, 1>>
\* the field names of the elements of a result, in order
ResultKeys(result) == [i \in 1..Len(result) |-> result[i].key]

\* C18: when sample_keys holds the wildcard, the result holds every field of
\* the records (those named before the wildcard where they were named, the
\* rest where the wildcard stands), and no field twice, for any ordering of
\* the names and the wildcard.
C18_WildcardCoversRestOnce ==
    (last.op = "sample_batch" /\ last.ok /\ "*" \in Range_of(last.sample_keys)) =>
        /\ Injective(ResultKeys(last.result))
        /\ Range_of(ResultKeys(last.result)) = last.batch[1].keys
\* The schema of a record: a plain scalar reward gives unit size 1, an array
\* reward gives its leading dimension; 0 when the reward gives none.
SchemaUnit(m) ==
    IF m.reward \in {"float", "int"} THEN 1
    ELSE IF m.reward = "tensor" /\ Len(m.reward_shape) >= 1 THEN m.reward_shape[1]
    ELSE 0

SchemaAccepts(m) ==
    /\ m.tensors
    /\ SchemaUnit(m) > 0
    /\ \A i \in 1..Len(m.shapes) :
           Len(m.shapes[i]) >= 1 /\ m.shapes[i][1] = SchemaUnit(m)

\* C19: constructing a record succeeds exactly when the record satisfies the
\* schema (a plain scalar reward, float or int, gives unit size 1; an array
\* reward gives its leading dimension; every state, action and next_state
\* array has that leading dimension), and the record built has that unit size.
C19_ConstructionAcceptsSchema ==
    last.op = "Transition" =>
        /\ last.ok <=> SchemaAccepts(last.arg)
        /\ last.ok => last.batch[1].unit = SchemaUnit(last.arg)
\* C20: while a worker's update body runs, its synchronisation is switched
\* off and no pull has been issued since update began, so an act, eval_act
\* or criticize call from inside the body with pull = TRUE issues no pull.
C20_UpdateBodyDoesNotPull ==
    \A w \in Workers :
        /\ at[w] = "body" =>
               /\ get(disable_sync[w])
               /\ \A i \in 1..Len(issued[w]) : issued[w][i].kind # "pull"
        /\ (ret[w].inside /\ ret[w].pull) => ~ret[w].pulled

\* an update that began with synchronisation enabled, whose body has made
\* its calls with pull = TRUE
C20_Witness ==
    \E w \in Workers :
        /\ at[w] = "body" /\ ~entry[w] /\ steps[w] = MaxBodyCalls
        /\ ret[w].op = "criticize" /\ ret[w].inside /\ ret[w].pull
\* the pushes among the remote calls q, in the order issued
Pushes(q) == SelectSeq(q, LAMBDA c : c.kind = "push")

\* the models of the remote calls q, in the order issued
Models(q) == [i \in 1..Len(q) |-> q[i].model]

C22_SwitchOffWhenUpdateLeft ==
    [][\A w \in Workers :
          (at[w] # "idle" /\ at'[w] = "idle") => ~get(disable_sync'[w])]_vars
InferOps == {"act", "eval_act", "criticize"}

\* the model a call uses: lines 85-87, 96-97, 102-103
ModelOf(op) == IF op = "criticize" THEN "critic" ELSE "actor"

\* a step of worker w that is a call of act, eval_act or criticize
InferStep(w) ==
    /\ at[w] \in {"idle", "body"}
    /\ ret'[w].op \in InferOps
    /\ ret'[w] # ret[w] \/ issued'[w] # issued[w] \/ steps'[w] = steps[w] + 1

\* the remote calls that step issues
NewCalls(w) ==
    IF at[w] = "body"
    THEN SubSeq(issued'[w], Len(issued[w]) + 1, Len(issued'[w]))
    ELSE issued'[w]

\* C23: a new A3C has its switch off, and a call of act, eval_act or
\* criticize issues a pull exactly when pull is TRUE and the switch is off:
\* then it issues one pull, of the model the call uses, and the model is
\* called only if the pull succeeded; otherwise it issues no remote call and
\* the model is called.
C23_PullsIffAskedAndEnabled ==
    /\ \A w \in Workers : ~get(disable_sync[w])
    /\ [][\A w \in Workers :
            InferStep(w) =>
                /\ ret'[w].pulled <=> (ret'[w].pull /\ ~get(disable_sync[w]))
                /\ ret'[w].pulled =>
                       NewCalls(w) = <<Remote("pull", ModelOf(ret'[w].op), ret'[w].ok)>>
                /\ ~ret'[w].pulled => NewCalls(w) = << >> /\ ret'[w].ok]_vars

\* a first act with the default pull = TRUE has pulled the actor
C23_Witness ==
    \E w \in Workers :
        /\ at[w] = "idle" /\ ~disable_sync[w]
        /\ ret[w] = Ret("act", TRUE, TRUE, FALSE, TRUE)
        /\ issued[w] = <<Remote("pull", "actor", TRUE)>>
\* a step of worker w that is a call of manual_sync
ManualSyncStep(w) ==
    /\ at[w] = "idle"
    /\ ret'[w].op = "manual_sync"
    /\ ret'[w] # ret[w] \/ issued'[w] # issued[w]

\* C24: manual_sync pulls the actor and then, the first pull having been
\* answered, the critic, whether the switch is on or off, and leaves the
\* switch of every worker as it was.
C24_ManualSyncBypassesSwitch ==
    [][\A w \in Workers :
          ManualSyncStep(w) =>
              /\ Len(issued'[w]) >= 1
              /\ issued'[w][1].kind = "pull" /\ issued'[w][1].model = "actor"
              /\ issued'[w][1].ok =>
                     /\ Len(issued'[w]) = 2
                     /\ issued'[w][2].kind = "pull" /\ issued'[w][2].model = "critic"
              /\ ~issued'[w][1].ok => Len(issued'[w]) = 1
              /\ disable_sync' = disable_sync]_vars

\* a manual_sync that pulled both models with the switch on
C24_Witness ==
    \E w \in Workers :
        /\ at[w] = "idle" /\ get(disable_sync[w])
        /\ ret[w].op = "manual_sync" /\ ret[w].ok
        /\ Models(issued[w]) = <<"actor", "critic">>
FailedPushStep(w) ==
    /\ at[w] \in {"push_actor", "push_critic"}
    /\ Len(issued'[w]) = Len(issued[w]) + 1
    /\ issued'[w][Len(issued'[w])].kind = "push"
    /\ ~issued'[w][Len(issued'[w])].ok

\* C26: a push of update that fails comes after the update body has run to
\* its end and the switch has been turned off again; the failure ends update
\* with an error for the caller, the switch stays off, and nothing else the
\* update did is undone (no push is withdrawn, the store is untouched).
C26_FailedPushKeepsLocalUpdate ==
    /\ [](\A w \in Workers :
             at[w] \in {"push_actor", "push_critic"} => ~get(disable_sync[w]))
    /\ [][\A w \in Workers :
            FailedPushStep(w) =>
                /\ at'[w] = "idle"
                /\ ret'[w] = Ret("update", FALSE, FALSE, FALSE, FALSE)
                /\ ~get(disable_sync'[w])
                /\ SubSeq(issued'[w], 1, Len(issued[w])) = issued[w]
                /\ UNCHANGED <<store, entry>>]_vars

\* an update whose critic push failed, after the actor's went through
C26_Witness ==
    \E w \in Workers :
        /\ at[w] = "idle" /\ ret[w] = Ret("update", FALSE, FALSE, FALSE, FALSE)
        /\ ~get(disable_sync[w])
        /\ issued[w] = <<Remote("push", "actor", TRUE), Remote("push", "critic", FALSE)>>
\* C27: among the remote calls of one call of act, eval_act, criticize,
\* manual_sync or update, no pull or push of a model occurs twice, and a call
\* that failed is the last one: with it the worker's call is over and has
\* reported the failure, so the model of act, eval_act or criticize has not
\* been called.
C27_FailureSurfacedNotRetried ==
    \A w \in Workers :
        LET q == issued[w] IN
        /\ \A i, j \in 1..Len(q) :
               (q[i].kind = q[j].kind /\ q[i].model = q[j].model) => i = j
        /\ \A i \in 1..Len(q) : ~q[i].ok => i = Len(q)
        /\ (Len(q) > 0 /\ ~q[Len(q)].ok) => (at[w] = "idle" /\ ~ret[w].ok)

\* an act whose pull failed
C27_Witness ==
    \E w \in Workers :
        /\ at[w] = "idle" /\ ret[w] = Ret("act", TRUE, TRUE, FALSE, FALSE)
        /\ issued[w] = <<Remote("pull", "actor", FALSE)>>
\* worker w takes the step: something of its A3C changes
StepOf(w) ==
    <<disable_sync'[w], at'[w], issued'[w], ret'[w], entry'[w], steps'[w]>>
        # <<disable_sync[w], at[w], issued[w], ret[w], entry[w], steps[w]>>

\* C28: a step of one worker leaves the switch (and everything else) of
\* every other worker as it was, and whether a call of act, eval_act or
\* criticize of a worker pulls is decided by that worker's switch alone,
\* whatever the switches and the positions of the others.
C28_SwitchPerWorker ==
    [][\A a \in Workers :
          StepOf(a) =>
              /\ \A b \in Workers \ {a} : ~StepOf(b)
              /\ (InferStep(a) /\ ret'[a].pull /\ ~get(disable_sync[a])) =>
                     ret'[a].pulled]_vars

\* one worker is inside its update, its switch on, and the other has pulled
C28_Witness ==
    \E a, b \in Workers :
        /\ a # b
        /\ at[a] = "body" /\ get(disable_sync[a])
        /\ at[b] = "idle" /\ ~get(disable_sync[b])
        /\ ret[b] = Ret("criticize", TRUE, TRUE, FALSE, TRUE)
        /\ issued[b] = <<Remote("pull", "critic", TRUE)>>
\* C29: a worker inside update can always take its next step, wherever the
\* other workers are, and its update is over in the end; a worker that is
\* not inside update can run manual_sync at once.
C29_NoWorkerWaitsForAnother ==
    /\ [](\A w \in Workers :
             /\ at[w] # "idle" => ENABLED Progress(w)
             /\ at[w] = "idle" => ENABLED manual_sync(w))
    /\ \A w \in Workers : (at[w] # "idle") ~> (at[w] = "idle")

\* one worker's update has returned and the other has run manual_sync since
C29_Witness ==
    \E a, b \in Workers :
        /\ a # b
        /\ at[a] = "idle" /\ ret[a] = Ret("update", FALSE, FALSE, FALSE, TRUE)
        /\ at[b] = "idle" /\ ret[b] = Ret("manual_sync", TRUE, TRUE, FALSE, TRUE)
\* C30: an uninterrupted append that finds more than buffer_size transitions
\* in the list (left by interleaved appends) and succeeds leaves the last
\* buffer_size of them, in their order, with the new transition written over
\* the slot at index; it returns index, advances index modulo buffer_size,
\* and size() is buffer_size afterwards.
C30_OversizedListTrimmedThenOverwritten ==
    [][(pc' = pc /\ hist' # hist /\ size(buffer) > buffer_size) =>
          /\ buffer' = [LastN(buffer, buffer_size) EXCEPT ![index + 1] = last'.batch[1]]
          /\ size(buffer') = buffer_size
          /\ last'.op = "append" /\ last'.ok /\ last'.position = index
          /\ index' = (index + 1) % buffer_size]_vars

\* buffer_size 2: one append, then two interleaved appends that both grew
\* the list to three, then an append that trimmed it and wrote slot 0
C30_Witness ==
    /\ buffer_size = 2 /\ round = 1 /\ AllAt({"done"})
    /\ Len(hist) = 4 /\ last.op = "append" /\ last.ok /\ last.position = 0
    /\ last.batch[1] = hist[4]
    /\ buffer = <<hist[4], hist[3]>> /\ index = 1
\* the step on which the update of worker w returns normally
UpdateReturns(w) == at[w] = "push_critic" /\ at'[w] = "idle" /\ ret'[w].ok

\* C31: when update returns normally the switch is off, also when the owner
\* had switched it on before calling update and never called off(): a call
\* of act, eval_act or criticize with pull = TRUE made next would pull.
C31_SwitchOffAfterUpdateReturns ==
    [][\A w \in Workers :
          UpdateReturns(w) =>
              /\ ~get(disable_sync'[w])
              /\ should_pull(TRUE, disable_sync'[w])]_vars

\* an update called with the switch already on has returned, and the
\* switch is off
C31_Witness ==
    \E w \in Workers :
        /\ entry[w] /\ ~get(disable_sync[w])
        /\ at[w] = "idle" /\ ret[w] = Ret("update", FALSE, FALSE, FALSE, TRUE)
        /\ Models(Pushes(issued[w])) = <<"actor", "critic">>
\* C32: whenever an append is about to write the slot at index (line 132),
\* also between the statements of interleaved appends, index is a slot of
\* the buffer: 0 <= index < buffer_size.
C32_CursorValidWhenSlotWritten ==
    \A p \in Producers :
        pc[p] = "set_item" => (0 <= index /\ index < buffer_size)
\* the models the servers have received: those of the pushes answered
Received(q) == Models(SelectSeq(Pushes(q), LAMBDA c : c.ok))

\* C33: the pushes of an update are the actor's and then the critic's; when
\* the actor's push fails the critic's is not attempted and the servers have
\* received nothing from this update; when the critic's push fails they have
\* received the actor only.
C33_PushOrderAndAbort ==
    \A w \in Workers :
        LET pushed == Pushes(issued[w]) IN
        /\ Models(pushed) \in {<< >>, <<"actor">>, <<"actor", "critic">>}
        /\ (Len(pushed) >= 1 /\ ~pushed[1].ok) =>
               /\ Len(pushed) = 1
               /\ Received(issued[w]) = << >>
               /\ at[w] = "idle"
        /\ (Len(pushed) = 2 /\ ~pushed[2].ok) =>
               Received(issued[w]) = <<"actor">>
        /\ at[w] = "push_critic" => Received(issued[w]) = <<"actor">>

\* one worker's update has ended with its actor push failing, the other's
\* with its critic push failing
C33_Witness ==
    \E a, b \in Workers :
        /\ at[a] = "idle" /\ issued[a] = <<Remote("push", "actor", FALSE)>>
        /\ at[b] = "idle"
        /\ issued[b] = <<Remote("push", "actor", TRUE), Remote("push", "critic", FALSE)>>
        /\ ~ret[a].ok /\ ~ret[b].ok
====
